---- MODULE Spec2Model ----
(***************************************************************************)
(* Buffering / flushing / retry engine of DevSmithLogger                   *)
(* (docs/integrations/python/logger.py).                                   *)
(*                                                                         *)
(* Application threads call log() and flush(); a threading.Timer thread    *)
(* runs flush_periodically; the atexit hook runs flush() once.  The buffer *)
(* lock is a threading.Lock: it is NOT reentrant, so an acquire blocks     *)
(* whenever the lock is held, also when the holder is the acquiring thread.*)
(* An entry is identified by its append rank (1 for the first appended).   *)
(* A `with self.lock:` block that calls nothing is one step; a block that  *)
(* calls flush() keeps the lock while the thread waits at flush()'s own    *)
(* `with self.lock:`.  close() is absent from logger.py (the tests call    *)
(* it); it is modelled from the design document, on top of flush().        *)
(***************************************************************************)
EXTENDS Naturals, Sequences, FiniteSets, Bags

\* ------------------------------------------------------------------ bounds
\* batch_size of the modelled instance (constructor argument, default 100)
BatchSize == 3
\* total number of log() calls of a run
MaxLogs == 3
\* number of sends the collector fails (exception or non-2xx) in a run
MaxFail == 1
\* number of close() calls of a run
MaxClose == 2

\* ------------------------------------------------------------------ threads
AppThreads == {"a1", "a2"}
TimerThread == "timer"
ExitThread == "exit"
Threads == AppThreads \cup {TimerThread, ExitThread}
Free == "free"

\* what requests.post can end with: a status code, or 0 for a raised
\* RequestException (no response)
Statuses == {0, 200, 201, 401, 500}

VARIABLES
    buffer,        \* self.buffer: sequence of entries
    lock,          \* self.lock: its holder, or Free
    pc,            \* where each thread is
    via,           \* which caller's flush() each thread runs
    logs,          \* flush()'s local `logs` of each thread (the batch)
    timersPending, \* threading.Timer objects started and not yet fired
    lifecycle,     \* Active / Closing / Closed (close())
    exited,        \* the atexit hook has run: the process is gone
    nlogged,       \* history: entries appended so far
    requests,      \* history: the POSTs issued, a bag of [batch, via]
    delivered,     \* history: the entries acknowledged with 200/201, a bag
    nfail,         \* history: sends failed so far
    closeCalls,    \* history: close() calls made
    entries,       \* the entry objects (dicts) built so far, by entry id
    cancels,       \* history: pending timers cancelled by Timer.cancel()
    ctor,          \* the constructor call: its arguments and what it did
    call,          \* the logging call under study and whether it was made
    http,          \* the HTTP request the Flask hooks handle, and what they logged
    doctor         \* the doctor service: its files, the request it handles, its answer

vars == <<buffer, lock, pc, via, logs, timersPending, lifecycle, exited,
          nlogged, requests, delivered, nfail, closeCalls, entries,
          cancels, ctor, call, http, doctor>>

hist == <<nlogged, requests, delivered, nfail, closeCalls>>

\* ------------------------------------------------------------------ helpers
Range(s) == {s[i] : i \in 1..Len(s)}

\* the bag holding each element of sequence s as often as s does
SeqToBag(s) == [e \in Range(s) |-> Cardinality({i \in 1..Len(s) : s[i] = e})]

\* `with self.lock:` can be entered: threading.Lock has no owner, so a
\* thread that already holds it waits like any other.
CanAcquire(t) == lock = Free

\* status_code in (200, 201), and no exception
IsSuccess(s) == s \in {200, 201}

\* mutant: the RequestException is not caught
Propagates_Uncaught(s) == s = 0

\* whether a failed send (status s, 0 for a RequestException) leaves flush()
\* as an exception: a status is only printed, and
\* `except requests.exceptions.RequestException` catches the exception
Propagates(s) == FALSE

\* mutant: flush() does not return on an empty buffer
BufferEmpty_Never(buf) == FALSE

\* `not self.buffer`
BufferEmpty(buf) == buf = <<>>

\* len(self.buffer) >= self.batch_size
ThresholdReached(buf) == Len(buf) >= BatchSize

\* mutant: the entry is inserted at the front
AppendEntry_Prepends(buf, e) == <<e>> \o buf

\* self.buffer.append(entry)
AppendEntry(buf, e) == Append(buf, e)

\* mutant: the copy misses the last entry
Snapshot_DropsLast(buf) == SubSeq(buf, 1, Len(buf) - 1)

\* logs = self.buffer[:]
Snapshot(buf) == buf

\* mutant: the buffer is not cleared after the copy
Cleared_KeepsBuffer(buf) == buf

\* self.buffer.clear()
Cleared(buf) == <<>>

\* mutant: requests.post is called inside the `with self.lock:` block
LockWhileSending_Held(t) == t

\* the lock's holder once flush() has left its `with self.lock:` block and
\* goes on to requests.post
LockWhileSending(t) == Free

\* self.buffer.extend(logs)
Requeue(buf, lg) == buf \o lg

\* ------------------------------------------------------------------ __init__
\* argument values: None, the empty string, a non-empty string
NoneValue == "<None>"
ArgValues == {NoneValue, "", "x"}
\* api_url values: None, without and with trailing slashes
UrlValues == {NoneValue, "http://h", "http://h/"}

\* Python's `not v` for an argument
Falsy(v) == v \in {NoneValue, ""}

\* api_url.rstrip('/')
Rstrip(u) == IF u = "http://h/" THEN "http://h" ELSE u

\* the attributes __init__ assigns once validation has passed
ConfigAttrs == {"api_key", "api_url", "project_slug", "service_name",
                "batch_size", "flush_interval"}
EngineAttrs == {"buffer", "lock", "timer"}

CtorArgs ==
    [api_key : ArgValues, api_url : UrlValues, project_slug : ArgValues,
     service_name : ArgValues]

\* the two classes named DevSmithLogger: the SDK module's (logger.py) and
\* the sample application's copy (app.py)
Classes == {"sdk", "app"}

\* a constructor call that has not run yet
Pending(cls, args) ==
    [cls |-> cls, args |-> args, outcome |-> "pending", error |-> <<>>,
     attrs |-> {}, api_url |-> NoneValue, timerStarted |-> FALSE,
     hookRegistered |-> FALSE]

\* the first required argument the validation finds missing, "" when none:
\* `if not api_key` / `if not project_slug` / `if not service_name`
RequiredMissing(args) ==
    IF Falsy(args.api_key) THEN "api_key"
    ELSE IF Falsy(args.project_slug) THEN "project_slug"
    ELSE IF Falsy(args.service_name) THEN "service_name"
    ELSE ""

\* logger.py __init__(args): what the call leaves behind
Constructed(args) ==
    IF RequiredMissing(args) # ""
      THEN [Pending("sdk", args) EXCEPT
              !.outcome = "raised",
              !.error = <<"ValueError", RequiredMissing(args)>>]
    ELSE IF args.api_url = NoneValue
      \* None.rstrip: AttributeError after self.api_key was assigned
      THEN [Pending("sdk", args) EXCEPT
              !.outcome = "raised",
              !.error = <<"AttributeError", "rstrip">>,
              !.attrs = {"api_key"}]
    ELSE [Pending("sdk", args) EXCEPT
              !.outcome = "constructed",
              !.attrs = ConfigAttrs \cup EngineAttrs,
              !.api_url = Rstrip(args.api_url),
              !.timerStarted = TRUE,
              !.hookRegistered = TRUE]

\* the attributes the sample application's __init__ assigns
AppAttrs == {"api_url", "api_key", "project_slug", "service_name",
             "buffer_size", "flush_interval", "buffer", "lock", "flush_timer"}

\* app.py __init__(args): every argument is stored as given, nothing is
\* validated, no timer is started and no exit hook is registered
ConstructedApp(args) ==
    [Pending("app", args) EXCEPT
        !.outcome = "constructed",
        !.attrs = AppAttrs,
        !.api_url = args.api_url]

\* the configuration of the instance the engine specifications run
ValidArgs ==
    [api_key |-> "x", api_url |-> "http://h/", project_slug |-> "x",
     service_name |-> "x"]

\* ------------------------------------------------------------------ Init
\* __init__: empty buffer, free lock, one timer started, hook registered
Init ==
    /\ buffer = <<>>
    /\ lock = Free
    /\ pc = [t \in Threads |-> "idle"]
    /\ via = [t \in Threads |-> "none"]
    /\ logs = [t \in Threads |-> <<>>]
    /\ timersPending = 1
    /\ lifecycle = "Active"
    /\ exited = FALSE
    /\ nlogged = 0
    /\ requests = EmptyBag
    /\ delivered = EmptyBag
    /\ nfail = 0
    /\ closeCalls = 0
    /\ entries = <<>>
    /\ cancels = 0
    /\ ctor = Constructed(ValidArgs)
    /\ call = <<>>
    /\ http = <<>>
    /\ doctor = <<>>

\* ------------------------------------------------------------------ entries
\* datetime.utcnow(): logical time, which every log() call advances
Now == nlogged + 1

\* level.upper()
Upper(level) ==
    CASE level \in {"debug", "DEBUG"} -> "DEBUG"
      [] level \in {"info", "INFO"} -> "INFO"
      [] level \in {"warn", "Warn", "WARN"} -> "WARN"
      [] level \in {"error", "ERROR"} -> "ERROR"
      [] level \in {"trace", "TRACE"} -> "TRACE"
      [] OTHER -> level

\* the dict log() builds
BuildEntry(level, message, context, now) ==
    [timestamp |-> now, level |-> Upper(level), message |-> message,
     service |-> ctor.args.service_name, context |-> context]

\* mutant: a requeued entry gets the time of the requeue
RequeuedEntry_Restamped(rec, now) == [rec EXCEPT !.timestamp = now]

\* buffer.extend(logs) puts the very objects of the batch back
RequeuedEntry(rec, now) == rec

\* An optional argument is <<>> when the caller leaves it out and <<v>>
\* when the caller passes v. A mapping is a function on its keys, the empty
\* mapping and the empty list are both <<>>.
SampleContext == [user_id |-> "123"]
SampleTags == <<"auth", "user">>
ContextArgs == {<<>>, << <<>> >>, <<SampleContext>>}
TagsArgs == {<<>>, << <<>> >>, <<SampleTags>>}

\* **context of log(level, message, **context) for a call that passes
\* context= and tags= as keywords: the dict of the keywords given
Kwargs(context, tags) ==
    [k \in {n \in {"context"} : context # <<>>} \cup {n \in {"tags"} : tags # <<>>}
        |-> IF k = "context" THEN context[1] ELSE tags[1]]

\* `context or {}` / `tags or []` for a parameter that defaults to None
OrEmpty(arg) == IF arg = <<>> THEN <<>> ELSE arg[1]

\* the level debug/info/warn/error pass on
MethodLevel(method) ==
    CASE method = "debug" -> "DEBUG"
      [] method = "info" -> "INFO"
      [] method = "warn" -> "WARN"
      [] method = "error" -> "ERROR"

\* a step that builds no entry, cancels no timer and constructs nothing
Quiet == UNCHANGED <<entries, cancels, ctor, call, http, doctor>>

\* ------------------------------------------------------------------ log()
\* log(): `with self.lock:` entered, entry appended; at the threshold the
\* thread calls self.flush() with the lock still held, else it leaves the
\* block.
Log(t) ==
    /\ ~exited
    /\ t \in AppThreads
    /\ pc[t] = "idle"
    /\ nlogged < MaxLogs
    /\ CanAcquire(t)
    /\ LET buf == AppendEntry(buffer, nlogged + 1) IN
         /\ buffer' = buf
         /\ nlogged' = nlogged + 1
         /\ IF ThresholdReached(buf)
              THEN /\ lock' = t
                   /\ pc' = [pc EXCEPT ![t] = "flush_lock"]
                   /\ via' = [via EXCEPT ![t] = "log"]
              ELSE /\ lock' = Free
                   /\ UNCHANGED <<pc, via>>
    /\ entries' = Append(entries, BuildEntry("info", "m", <<>>, Now))
    /\ UNCHANGED <<logs, timersPending, lifecycle, exited, requests,
                   delivered, nfail, closeCalls, cancels, ctor,
                   call, http, doctor>>

\* ------------------------------------------------------------------ flush()
\* What the caller of flush() does when flush() returns.
\*   log():              leaves its `with self.lock:` block and returns
\*   flush_periodically: leaves its `with` block, then self._start_timer()
\*   close():            the logger is Closed
\*   atexit:             the process ends
AfterLock(t, l) == IF via[t] \in {"log", "timer"} THEN Free ELSE l
AfterTimers(t) == IF via[t] = "timer" THEN timersPending + 1 ELSE timersPending
AfterLifecycle(t) == IF via[t] = "close" THEN "Closed" ELSE lifecycle
AfterExited(t) == via[t] = "exit"

FlushReturns(t, l) ==
    /\ lock' = AfterLock(t, l)
    /\ timersPending' = AfterTimers(t)
    /\ lifecycle' = AfterLifecycle(t)
    /\ exited' = AfterExited(t)
    /\ pc' = [pc EXCEPT ![t] = "idle"]
    /\ via' = [via EXCEPT ![t] = "none"]

\* an application thread calls flush()
FlushCall(t) ==
    /\ ~exited
    /\ t \in AppThreads
    /\ pc[t] = "idle"
    /\ pc' = [pc EXCEPT ![t] = "flush_lock"]
    /\ via' = [via EXCEPT ![t] = "explicit"]
    /\ Quiet
    /\ UNCHANGED <<buffer, lock, logs, timersPending, lifecycle, exited,
                   nlogged, requests, delivered, nfail, closeCalls>>

\* flush(): `with self.lock:` entered and the buffer found empty: return
FlushEmpty(t) ==
    /\ ~exited
    /\ pc[t] = "flush_lock"
    /\ CanAcquire(t)
    /\ BufferEmpty(buffer)
    /\ FlushReturns(t, Free)
    /\ Quiet
    /\ UNCHANGED <<buffer, logs>>
    /\ UNCHANGED hist

\* flush(): `with self.lock:` entered, logs = buffer[:], buffer.clear(),
\* block left, requests.post(...) issued
FlushSnapshot(t) ==
    /\ ~exited
    /\ pc[t] = "flush_lock"
    /\ CanAcquire(t)
    /\ ~BufferEmpty(buffer)
    /\ logs' = [logs EXCEPT ![t] = Snapshot(buffer)]
    /\ buffer' = Cleared(buffer)
    /\ lock' = LockWhileSending(t)
    /\ pc' = [pc EXCEPT ![t] = "sending"]
    /\ requests' = requests (+) SetToBag({[batch |-> Snapshot(buffer), via |-> via[t]]})
    /\ Quiet
    /\ UNCHANGED <<via, timersPending, lifecycle, exited, nlogged,
                   delivered, nfail, closeCalls>>

\* requests.post returns 200 or 201: nothing more to do, flush() returns
SendOk(t) ==
    /\ ~exited
    /\ pc[t] = "sending"
    /\ \E s \in Statuses :
         /\ IsSuccess(s)
         /\ delivered' = delivered (+) SeqToBag(logs[t])
    /\ logs' = [logs EXCEPT ![t] = <<>>]
    /\ FlushReturns(t, lock)
    /\ UNCHANGED <<buffer, nlogged, requests, nfail, closeCalls, entries,
                   cancels, ctor,
                   call, http, doctor>>

\* requests.post raises RequestException or returns another status: the
\* failure is printed and the thread goes to `with self.lock:` to requeue
SendFail(t) ==
    /\ ~exited
    /\ pc[t] = "sending"
    /\ nfail < MaxFail
    /\ \E s \in Statuses :
         /\ ~IsSuccess(s)
         /\ pc' = [pc EXCEPT ![t] = IF Propagates(s) THEN "raised"
                                                      ELSE "requeue_lock"]
    /\ nfail' = nfail + 1
    /\ UNCHANGED <<buffer, lock, via, logs, timersPending, lifecycle,
                   exited, nlogged, requests, delivered, closeCalls,
                   entries, cancels, ctor,
                   call, http, doctor>>

\* `with self.lock: self.buffer.extend(logs)`, then flush() returns
FlushRequeue(t) ==
    /\ ~exited
    /\ pc[t] = "requeue_lock"
    /\ CanAcquire(t)
    /\ buffer' = Requeue(buffer, logs[t])
    /\ entries' = [e \in DOMAIN entries |->
                       IF e \in Range(logs[t])
                         THEN RequeuedEntry(entries[e], Now)
                         ELSE entries[e]]
    /\ logs' = [logs EXCEPT ![t] = <<>>]
    /\ FlushReturns(t, Free)
    /\ UNCHANGED <<cancels, ctor, call, http, doctor>>
    /\ UNCHANGED hist

\* ------------------------------------------------------------------ timer
\* the threading.Timer started by _start_timer fires: flush_periodically
\* starts on the timer thread
TimerFire ==
    /\ ~exited
    /\ timersPending > 0
    /\ pc[TimerThread] = "idle"
    /\ timersPending' = timersPending - 1
    /\ pc' = [pc EXCEPT ![TimerThread] = "tick_lock"]
    /\ Quiet
    /\ UNCHANGED <<buffer, lock, via, logs, lifecycle, exited, nlogged,
                   requests, delivered, nfail, closeCalls>>

\* flush_periodically: `with self.lock:` entered; a non-empty buffer makes it
\* call self.flush() with the lock held; else it leaves the block and
\* calls self._start_timer()
TimerTick ==
    /\ ~exited
    /\ pc[TimerThread] = "tick_lock"
    /\ CanAcquire(TimerThread)
    /\ IF buffer # <<>>
         THEN /\ lock' = TimerThread
              /\ pc' = [pc EXCEPT ![TimerThread] = "flush_lock"]
              /\ via' = [via EXCEPT ![TimerThread] = "timer"]
              /\ UNCHANGED timersPending
         ELSE /\ lock' = Free
              /\ pc' = [pc EXCEPT ![TimerThread] = "idle"]
              /\ timersPending' = timersPending + 1
              /\ UNCHANGED via
    /\ Quiet
    /\ UNCHANGED <<buffer, logs, lifecycle, exited>>
    /\ UNCHANGED hist

\* ------------------------------------------------------------------ atexit
\* atexit.register(self.flush): the hook runs flush() once
AtExit ==
    /\ ~exited
    /\ pc[ExitThread] = "idle"
    /\ pc' = [pc EXCEPT ![ExitThread] = "flush_lock"]
    /\ via' = [via EXCEPT ![ExitThread] = "exit"]
    /\ Quiet
    /\ UNCHANGED <<buffer, lock, logs, timersPending, lifecycle, exited,
                   nlogged, requests, delivered, nfail, closeCalls>>

\* ------------------------------------------------------------------ close()
\* close(): Active -> Closing, the scheduler cancelled, one synchronous
\* flush(); then Closed.
CloseFirst(t) ==
    /\ ~exited
    /\ t \in AppThreads
    /\ pc[t] = "idle"
    /\ closeCalls < MaxClose
    /\ lifecycle = "Active"
    /\ lifecycle' = "Closing"
    /\ timersPending' = 0
    /\ pc' = [pc EXCEPT ![t] = "flush_lock"]
    /\ via' = [via EXCEPT ![t] = "close"]
    /\ closeCalls' = closeCalls + 1
    /\ Quiet
    /\ UNCHANGED <<buffer, lock, logs, exited, nlogged, requests,
                   delivered, nfail>>

\* a second close() is a no-op
CloseAgain(t) ==
    /\ ~exited
    /\ t \in AppThreads
    /\ pc[t] = "idle"
    /\ closeCalls < MaxClose
    /\ lifecycle # "Active"
    /\ closeCalls' = closeCalls + 1
    /\ Quiet
    /\ UNCHANGED <<buffer, lock, pc, via, logs, timersPending, lifecycle,
                   exited, nlogged, requests, delivered, nfail>>

\* ------------------------------------------------------------------ Spec
Next ==
    \/ \E t \in AppThreads : Log(t)
    \/ \E t \in AppThreads : FlushCall(t)
    \/ \E t \in Threads : FlushEmpty(t)
    \/ \E t \in Threads : FlushSnapshot(t)
    \/ \E t \in Threads : SendOk(t)
    \/ \E t \in Threads : SendFail(t)
    \/ \E t \in Threads : FlushRequeue(t)
    \/ TimerFire
    \/ TimerTick
    \/ AtExit
    \/ \E t \in AppThreads : CloseFirst(t)
    \/ \E t \in AppThreads : CloseAgain(t)

Spec == Init /\ [][Next]_vars

\* Scheduling: a thread that can take its next step inside flush() takes it
\* (the lock is granted when free, every send completes), and the timer
\* callback that can enter its locked block does.
Fairness ==
    /\ \A t \in Threads :
           WF_vars(FlushEmpty(t) \/ FlushSnapshot(t) \/ SendOk(t)
                   \/ SendFail(t) \/ FlushRequeue(t))
    /\ WF_vars(TimerTick)

FairSpec == Spec /\ Fairness

\* ------------------------------------------------- the sample app's copy
\* The DevSmithLogger class inlined in the sample application. Its timer is
\* armed by _log, not by the constructor, and runs flush() itself; one timer
\* thread stands for the Timer threads, so a timer armed while an earlier
\* timer's flush() is still running fires once that flush() has returned.
InitApp ==
    /\ buffer = <<>>
    /\ lock = Free
    /\ pc = [t \in Threads |-> "idle"]
    /\ via = [t \in Threads |-> "none"]
    /\ logs = [t \in Threads |-> <<>>]
    /\ timersPending = 0
    /\ lifecycle = "Active"
    /\ exited = FALSE
    /\ nlogged = 0
    /\ requests = EmptyBag
    /\ delivered = EmptyBag
    /\ nfail = 0
    /\ closeCalls = 0
    /\ entries = <<>>
    /\ cancels = 0
    /\ ctor = ConstructedApp(ValidArgs)
    /\ call = <<>>
    /\ http = <<>>
    /\ doctor = <<>>

\* the dict _log() builds: the level as passed by debug/info/warn/error,
\* `context or {}` and `tags or []`
BuildEntryApp(level, message, context, tags, now) ==
    [timestamp |-> now, level |-> level, message |-> message,
     service |-> ctor.args.service_name, context |-> OrEmpty(context),
     tags |-> OrEmpty(tags)]

\* the request flush() builds for a batch and hands to urlopen: the URL is
\* self.api_url as configured, the body the JSON of {project_slug, logs}
AppPostRequest(batch, v) ==
    [batch |-> batch, via |-> v, method |-> "POST", url |-> ctor.api_url,
     headers |-> [h \in {"Content-Type", "Authorization"} |->
                     IF h = "Content-Type" THEN "application/json"
                     ELSE "Bearer " \o ctor.args.api_key],
     body |-> [project_slug |-> ctor.args.project_slug,
               logs |-> [i \in 1..Len(batch) |-> entries[batch[i]]]]]

\* mutant: _schedule_flush starts a timer without cancelling the pending one
Rescheduled_NoCancel(pending) == pending + 1

\* _schedule_flush(): the timers pending once the previous one has been
\* cancelled and a new one started
Rescheduled(pending) == 1

\* _log(): `with self.lock:` entered, entry appended; at the threshold the
\* thread calls self.flush() with the lock still held; below it
\* _schedule_flush() cancels the pending timer and starts a new one
AppLog(t) ==
    /\ ~exited
    /\ t \in AppThreads
    /\ pc[t] = "idle"
    /\ nlogged < MaxLogs
    /\ CanAcquire(t)
    /\ LET buf == AppendEntry(buffer, nlogged + 1) IN
         /\ buffer' = buf
         /\ nlogged' = nlogged + 1
         /\ IF ThresholdReached(buf)
              THEN /\ lock' = t
                   /\ pc' = [pc EXCEPT ![t] = "flush_lock"]
                   /\ via' = [via EXCEPT ![t] = "log"]
                   /\ UNCHANGED <<timersPending, cancels>>
              ELSE /\ lock' = Free
                   /\ cancels' = cancels + timersPending
                   /\ timersPending' = Rescheduled(timersPending)
                   /\ UNCHANGED <<pc, via>>
    /\ entries' = Append(entries, BuildEntryApp("INFO", "m", <<>>, <<>>, Now))
    /\ UNCHANGED <<logs, lifecycle, exited, requests, delivered, nfail,
                   closeCalls, ctor,
                   call, http, doctor>>

\* flush() returns to its caller: _log leaves its `with self.lock:` block,
\* the exit hook ends the process; a timer's flush() arms nothing
AppFlushReturns(t, l) ==
    /\ lock' = IF via[t] = "log" THEN Free ELSE l
    /\ exited' = (via[t] = "exit")
    /\ pc' = [pc EXCEPT ![t] = "idle"]
    /\ via' = [via EXCEPT ![t] = "none"]

\* a request handler calls logger.flush()
AppFlushCall(t) ==
    /\ ~exited
    /\ t \in AppThreads
    /\ pc[t] = "idle"
    /\ pc' = [pc EXCEPT ![t] = "flush_lock"]
    /\ via' = [via EXCEPT ![t] = "explicit"]
    /\ UNCHANGED <<buffer, lock, logs, timersPending, lifecycle, exited,
                   nlogged, requests, delivered, nfail, closeCalls, entries,
                   cancels, ctor,
                   call, http, doctor>>

\* flush(): `with self.lock:` entered and the buffer found empty: return
AppFlushEmpty(t) ==
    /\ ~exited
    /\ pc[t] = "flush_lock"
    /\ CanAcquire(t)
    /\ BufferEmpty(buffer)
    /\ AppFlushReturns(t, Free)
    /\ UNCHANGED <<buffer, logs, timersPending, lifecycle, nlogged, requests,
                   delivered, nfail, closeCalls, entries, cancels, ctor,
                   call, http, doctor>>

\* flush(): batch = buffer[:], buffer.clear(), block left, urlopen(req)
AppFlushSnapshot(t) ==
    /\ ~exited
    /\ pc[t] = "flush_lock"
    /\ CanAcquire(t)
    /\ ~BufferEmpty(buffer)
    /\ logs' = [logs EXCEPT ![t] = Snapshot(buffer)]
    /\ buffer' = Cleared(buffer)
    /\ lock' = LockWhileSending(t)
    /\ pc' = [pc EXCEPT ![t] = "sending"]
    /\ requests' = requests (+) SetToBag({AppPostRequest(Snapshot(buffer), via[t])})
    /\ UNCHANGED <<via, timersPending, lifecycle, exited, nlogged,
                   delivered, nfail, closeCalls, entries, cancels, ctor,
                   call, http, doctor>>

\* urlopen returns: flush() returns
AppSendOk(t) ==
    /\ ~exited
    /\ pc[t] = "sending"
    /\ delivered' = delivered (+) SeqToBag(logs[t])
    /\ logs' = [logs EXCEPT ![t] = <<>>]
    /\ AppFlushReturns(t, lock)
    /\ UNCHANGED <<buffer, timersPending, lifecycle, nlogged, requests,
                   nfail, closeCalls, entries, cancels, ctor,
                   call, http, doctor>>

\* urlopen raises (HTTPError for an error status, URLError, a timeout):
\* `except Exception` prints it and flush() returns; the batch goes nowhere
AppSendFail(t) ==
    /\ ~exited
    /\ pc[t] = "sending"
    /\ nfail < MaxFail
    /\ nfail' = nfail + 1
    /\ logs' = [logs EXCEPT ![t] = <<>>]
    /\ AppFlushReturns(t, lock)
    /\ UNCHANGED <<buffer, timersPending, lifecycle, nlogged, requests,
                   delivered, closeCalls, entries, cancels, ctor,
                   call, http, doctor>>

\* the threading.Timer started by _schedule_flush fires: flush() starts on
\* the timer thread
AppTimerFire ==
    /\ ~exited
    /\ timersPending > 0
    /\ pc[TimerThread] = "idle"
    /\ timersPending' = timersPending - 1
    /\ pc' = [pc EXCEPT ![TimerThread] = "flush_lock"]
    /\ via' = [via EXCEPT ![TimerThread] = "timer"]
    /\ UNCHANGED <<buffer, lock, logs, lifecycle, exited, nlogged, requests,
                   delivered, nfail, closeCalls, entries, cancels, ctor,
                   call, http, doctor>>

\* atexit.register(self.logger.flush) of the Flask extension: the hook runs
\* flush() once
AppAtExit ==
    /\ ~exited
    /\ pc[ExitThread] = "idle"
    /\ pc' = [pc EXCEPT ![ExitThread] = "flush_lock"]
    /\ via' = [via EXCEPT ![ExitThread] = "exit"]
    /\ UNCHANGED <<buffer, lock, logs, timersPending, lifecycle, exited,
                   nlogged, requests, delivered, nfail, closeCalls, entries,
                   cancels, ctor,
                   call, http, doctor>>

NextApp ==
    \/ \E t \in AppThreads : AppLog(t)
    \/ \E t \in AppThreads : AppFlushCall(t)
    \/ \E t \in Threads : AppFlushEmpty(t)
    \/ \E t \in Threads : AppFlushSnapshot(t)
    \/ \E t \in Threads : AppSendOk(t)
    \/ \E t \in Threads : AppSendFail(t)
    \/ AppTimerFire
    \/ AppAtExit

SpecApp == InitApp /\ [][NextApp]_vars

\* Scheduling of the copy: flush() steps are taken when they can be, every
\* send completes, and an armed timer fires.
FairnessApp ==
    /\ \A t \in Threads :
           WF_vars(AppFlushEmpty(t) \/ AppFlushSnapshot(t) \/ AppSendOk(t)
                   \/ AppSendFail(t))
    /\ WF_vars(AppTimerFire)

FairSpecApp == SpecApp /\ FairnessApp

\* ------------------------------------------------------------ either class
\* An instance of either class, running its own methods.
InitBoth == Init \/ InitApp

NextBoth ==
    \/ ctor.cls = "sdk" /\ Next
    \/ ctor.cls = "app" /\ NextApp

SpecBoth == InitBoth /\ [][NextBoth]_vars

\* ------------------------------------------------------------ one log call
\* One call of the logging API of either class, over the methods, level
\* strings and context/tags arguments below, on a fresh instance.
LevelStrings == {"debug", "info", "warn", "error", "Warn", "trace"}
ConvenienceMethods == {"debug", "info", "warn", "error"}

\* log(level, ...) of the SDK module, and debug/info/warn/error of both
\* classes, called with context= and tags= given or left out
ApiCalls ==
    [cls : {"sdk"}, method : {"log"}, level : LevelStrings,
     context : ContextArgs, tags : TagsArgs, made : {FALSE}]
    \cup [cls : Classes, method : ConvenienceMethods, level : {""},
          context : ContextArgs, tags : TagsArgs, made : {FALSE}]

InitEntry ==
    /\ buffer = <<>>
    /\ lock = Free
    /\ pc = [t \in Threads |-> "idle"]
    /\ via = [t \in Threads |-> "none"]
    /\ logs = [t \in Threads |-> <<>>]
    /\ lifecycle = "Active"
    /\ exited = FALSE
    /\ nlogged = 0
    /\ requests = EmptyBag
    /\ delivered = EmptyBag
    /\ nfail = 0
    /\ closeCalls = 0
    /\ entries = <<>>
    /\ cancels = 0
    /\ http = <<>>
    /\ doctor = <<>>
    /\ \E c \in ApiCalls :
         /\ call = c
         /\ ctor = IF c.cls = "sdk" THEN Constructed(ValidArgs)
                                    ELSE ConstructedApp(ValidArgs)
         /\ timersPending = IF c.cls = "sdk" THEN 1 ELSE 0

\* the entry the call builds: logger.py passes the level and the keyword
\* dict to log(); app.py passes the level, context and tags to _log()
EntryOf(c, now) ==
    IF c.cls = "sdk"
      THEN BuildEntry(IF c.method = "log" THEN c.level ELSE MethodLevel(c.method),
                      "m", Kwargs(c.context, c.tags), now)
      ELSE BuildEntryApp(MethodLevel(c.method), "m", c.context, c.tags, now)

\* the call is made: the entry is built and appended under the lock (the
\* buffer stays below the threshold); app.py then arms its flush timer
MakeCall ==
    /\ ~call.made
    /\ call' = [call EXCEPT !.made = TRUE]
    /\ CanAcquire("a1")
    /\ ~ThresholdReached(AppendEntry(buffer, nlogged + 1))
    /\ buffer' = AppendEntry(buffer, nlogged + 1)
    /\ nlogged' = nlogged + 1
    /\ entries' = Append(entries, EntryOf(call, Now))
    /\ timersPending' = IF call.cls = "app" THEN 1 ELSE timersPending
    /\ UNCHANGED <<lock, pc, via, logs, lifecycle, exited, requests,
                   delivered, nfail, closeCalls, cancels, ctor, http, doctor>>

NextEntry == MakeCall

SpecEntry == InitEntry /\ [][NextEntry]_vars

\* ------------------------------------------------------------ Flask hooks
\* One HTTP request handled by a Flask application that carries one of the
\* two extensions: DevSmithFlask (flask_integration.py) or DevSmithLogging
\* (the sample application). Flask runs the before_request hooks, the view,
\* the after_request hooks on the response (the 500 response when the view
\* raised) and the teardown_request hooks (with the exception the view
\* raised and nothing handled).
Extensions == {"DevSmithFlask", "DevSmithLogging"}
Paths == {"/health", "/test"}
Outcomes == {"ok", "client_error", "server_error", "exception"}
HeaderNames == {"Authorization", "Cookie", "User-Agent"}
Redacted == "[REDACTED]"

\* self.skip_paths: DevSmithFlask's default, and what the sample
\* application passes to DevSmithLogging
SkipPathsOf(ext) ==
    IF ext = "DevSmithFlask" THEN {"/health", "/metrics"} ELSE {"/health"}

\* self.redact_headers of DevSmithFlask (header names in lower case)
RedactHeaders == {"authorization", "cookie", "x-api-key"}

\* key.lower()
Lower(key) ==
    CASE key = "Authorization" -> "authorization"
      [] key = "Cookie" -> "cookie"
      [] key = "User-Agent" -> "user-agent"
      [] key = "Content-Type" -> "content-type"
      [] OTHER -> key

\* _redact_headers(headers)
RedactedHeaders(headers) ==
    [k \in DOMAIN headers |->
        IF Lower(k) \in RedactHeaders THEN Redacted ELSE headers[k]]

\* the requests a client may send: a path, the three headers (two secrets
\* each for Authorization and Cookie) and what the view will do
HttpRequests ==
    [ext : Extensions, path : Paths, outcome : Outcomes,
     headers : {[h \in HeaderNames |->
                    CASE h = "Authorization" -> "Bearer " \o sec
                      [] h = "Cookie" -> "session=" \o sec
                      [] OTHER -> "test-agent"] : sec \in {"s1", "s2"}},
     phase : {"before"}, status : {0}, logged : {<<>>}]

\* response.status_code for what the view did
StatusOf(outcome) ==
    CASE outcome = "ok" -> 200
      [] outcome = "client_error" -> 404
      [] OTHER -> 500

\* _after_request of DevSmithFlask: error / warn / info by status code
LevelByStatus(status) ==
    IF status >= 500 THEN "error" ELSE IF status >= 400 THEN "warn" ELSE "info"

InitFlask ==
    /\ buffer = <<>>
    /\ lock = Free
    /\ pc = [t \in Threads |-> "idle"]
    /\ via = [t \in Threads |-> "none"]
    /\ logs = [t \in Threads |-> <<>>]
    /\ timersPending = 1
    /\ lifecycle = "Active"
    /\ exited = FALSE
    /\ nlogged = 0
    /\ requests = EmptyBag
    /\ delivered = EmptyBag
    /\ nfail = 0
    /\ closeCalls = 0
    /\ entries = <<>>
    /\ cancels = 0
    /\ ctor = Constructed(ValidArgs)
    /\ call = <<>>
    /\ http \in HttpRequests
    /\ doctor = <<>>

\* what a hook does to the request record: move on, having made the
\* logger calls `made`
Hooked(phase, made) ==
    /\ http' = [http EXCEPT !.phase = phase, !.logged = http.logged \o made]
    /\ UNCHANGED <<buffer, lock, pc, via, logs, timersPending, lifecycle,
                   exited, nlogged, requests, delivered, nfail, closeCalls,
                   entries, cancels, ctor, call, doctor>>

\* before_request: DevSmithFlask records the start time; DevSmithLogging
\* returns on a skipped path and else logs 'Incoming request' with
\* dict(request.headers)
BeforeRequest ==
    /\ http.phase = "before"
    /\ Hooked("view",
              IF http.ext = "DevSmithLogging" /\ http.path \notin SkipPathsOf(http.ext)
                THEN <<[method |-> "info", message |-> "Incoming request",
                        context |-> [path |-> http.path,
                                     headers |-> http.headers]]>>
                ELSE <<>>)

\* the view runs and Flask has a response
View ==
    /\ http.phase = "view"
    /\ http' = [http EXCEPT !.phase = "after", !.status = StatusOf(http.outcome)]
    /\ UNCHANGED <<buffer, lock, pc, via, logs, timersPending, lifecycle,
                   exited, nlogged, requests, delivered, nfail, closeCalls,
                   entries, cancels, ctor, call, doctor>>

\* after_request: both return on a skipped path; DevSmithFlask logs method,
\* path, status and the redacted headers at the level the status gives,
\* DevSmithLogging logs 'Request completed'
AfterRequest ==
    /\ http.phase = "after"
    /\ Hooked("teardown",
              IF http.path \in SkipPathsOf(http.ext) THEN <<>>
              ELSE IF http.ext = "DevSmithFlask"
                THEN <<[method |-> LevelByStatus(http.status),
                        message |-> "request",
                        context |-> [path |-> http.path,
                                     user_agent |-> http.headers["User-Agent"],
                                     status_code |-> http.status,
                                     request_headers |-> RedactedHeaders(http.headers),
                                     response_headers |-> RedactedHeaders(
                                         [h \in {"Content-Type"} |-> "application/json"])]]>>
              ELSE <<[method |-> "info", message |-> "Request completed",
                      context |-> [path |-> http.path,
                                   status_code |-> http.status]]>>)

\* teardown_request: DevSmithFlask logs 'Unhandled exception' when the view
\* raised; DevSmithLogging registers no such hook
TeardownRequest ==
    /\ http.phase = "teardown"
    /\ Hooked("done",
              IF http.ext = "DevSmithFlask" /\ http.outcome = "exception"
                THEN <<[method |-> "error", message |-> "Unhandled exception",
                        context |-> [path |-> http.path,
                                     exception |-> "raised"]]>>
                ELSE <<>>)

NextFlask == BeforeRequest \/ View \/ AfterRequest \/ TeardownRequest

SpecFlask == InitFlask /\ [][NextFlask]_vars

\* the headers a logged context carries, <<>> when it carries none
HeadersIn(context) ==
    IF "request_headers" \in DOMAIN context THEN context.request_headers
    ELSE IF "headers" \in DOMAIN context THEN context.headers
    ELSE <<>>

\* ------------------------------------------------------------ construction
\* A constructor call of either class, with every combination of arguments.
InitCtor ==
    /\ buffer = <<>>
    /\ lock = Free
    /\ pc = [t \in Threads |-> "idle"]
    /\ via = [t \in Threads |-> "none"]
    /\ logs = [t \in Threads |-> <<>>]
    /\ timersPending = 0
    /\ lifecycle = "Active"
    /\ exited = FALSE
    /\ nlogged = 0
    /\ requests = EmptyBag
    /\ delivered = EmptyBag
    /\ nfail = 0
    /\ closeCalls = 0
    /\ entries = <<>>
    /\ cancels = 0
    /\ \E cls \in Classes : \E args \in CtorArgs : ctor = Pending(cls, args)
    /\ call = <<>>
    /\ http = <<>>
    /\ doctor = <<>>

\* __init__ runs: it raises or leaves an instance; logger.py's starts the
\* flush timer (self._start_timer()) on success
Construct ==
    /\ ctor.outcome = "pending"
    /\ LET done == IF ctor.cls = "sdk" THEN Constructed(ctor.args)
                                       ELSE ConstructedApp(ctor.args) IN
         /\ ctor' = done
         /\ timersPending' = IF done.timerStarted THEN 1 ELSE 0
    /\ UNCHANGED <<buffer, lock, pc, via, logs, lifecycle, exited, nlogged,
                   requests, delivered, nfail, closeCalls, entries, cancels,
                   call, http, doctor>>

NextCtor == Construct

SpecCtor == InitCtor /\ [][NextCtor]_vars

\* --------------------------------------------------------- doctor service
\* The FastAPI service of packages/devsmith-doctor/backend/main.py. Its
\* handlers are coroutines of one event loop and await nothing but each
\* other, so a handler runs from its first line to its return or raise
\* without another handler in between. The analyzer, the fix executor and
\* the doctor logger are collaborators outside main.py: what they return or
\* raise is chosen freely among what their call sites in main.py handle.

\* the fix ids a client may ask for
FixIds == {"f1", "f2"}
\* longest fix_ids list of a batch request
MaxBatch == 2

\* what analyzer.read_validation_status() finds: no status file (a falsy
\* result), a status file without issues, one with issues
Validations == {"absent", "healthy", "issues"}

\* what fix_executor.execute_fix(fix) does: returns success True, returns
\* success False, or raises
ExecOutcomes == {"ok", "failed", "raises"}

\* exceptions: none, HTTPException(status_code), or another Exception
NoExc == [type |-> "none", status_code |-> 0]
HTTPException(status_code) == [type |-> "HTTPException", status_code |-> status_code]
OtherError == [type |-> "RuntimeError", status_code |-> 0]

\* isinstance(e, Exception): HTTPException derives from Exception
IsException(exc) == exc.type \in {"HTTPException", "RuntimeError"}

\* `except Exception as e: raise HTTPException(status_code=500, ...)` around
\* a handler's body: every Exception the body raised leaves as a 500
ExceptException(exc) ==
    IF exc # NoExc /\ IsException(exc) THEN HTTPException(500) ELSE exc

\* the status FastAPI answers with: 200 for a returned value, the
\* status_code of a raised HTTPException
StatusSent(exc) ==
    IF exc = NoExc THEN 200
    ELSE IF exc.type = "HTTPException" THEN exc.status_code ELSE 500

\* FixResponse(success, message)
FixResponse(success, message) == [success |-> success, message |-> message]
NoBody == [success |-> FALSE, message |-> ""]

\* FixRequest(fix_id, auto_apply=False, dry_run=False)
FixRequest(fix_id, auto_apply, dry_run) ==
    [fix_id |-> fix_id, auto_apply |-> auto_apply, dry_run |-> dry_run]

\* `if request.dry_run:` of apply_fix
DryRun_Ignored(request) == FALSE
DryRun(request) == request.dry_run

\* the body of apply_fix's try block, for the fixes in `store` and what
\* execute_fix does: the exception it raises (NoExc when it returns), the
\* FixResponse it returns, the fixes handed to execute_fix and the
\* applications handed to doctor_logger.log_fix_applied
ApplyFixBody(store, request, outcome) ==
    IF request.fix_id \notin store
      THEN [exc |-> HTTPException(404), body |-> NoBody,
            ran |-> <<>>, logd |-> <<>>]
    ELSE IF DryRun(request)
      THEN [exc |-> NoExc,
            body |-> FixResponse(TRUE, "Dry run - no commands executed"),
            ran |-> <<>>, logd |-> <<>>]
    ELSE IF request.auto_apply
      THEN IF outcome = "raises"
             THEN [exc |-> OtherError, body |-> NoBody,
                   ran |-> <<request.fix_id>>, logd |-> <<>>]
             ELSE [exc |-> NoExc,
                   body |-> FixResponse(outcome = "ok",
                                IF outcome = "ok" THEN "Fix applied successfully"
                                                  ELSE "Fix failed"),
                   ran |-> <<request.fix_id>>,
                   logd |-> <<[fix_id |-> request.fix_id,
                               success |-> outcome = "ok"]>>]
    ELSE [exc |-> NoExc,
          body |-> FixResponse(FALSE, "auto_apply must be true to execute fix"),
          ran |-> <<>>, logd |-> <<>>]

\* apply_fix(request): the try block and its except clause
ApplyFixCall(store, request, outcome) ==
    LET r == ApplyFixBody(store, request, outcome) IN
    [r EXCEPT !.exc = ExceptException(r.exc)]

\* the body of diagnose's try block: 404 without a status file, else the
\* DiagnosisResponse, unless a collaborator raises on the way
DiagnoseBody(validation, fault) ==
    IF validation = "absent" THEN [exc |-> HTTPException(404), status |-> ""]
    ELSE IF fault THEN [exc |-> OtherError, status |-> ""]
    ELSE IF validation = "healthy" THEN [exc |-> NoExc, status |-> "healthy"]
    ELSE [exc |-> NoExc, status |-> "issues_found"]

\* diagnose(): the try block and its except clause
DiagnoseCall(validation, fault) ==
    LET r == DiagnoseBody(validation, fault) IN
    [r EXCEPT !.exc = ExceptException(r.exc)]

\* what apply_fixes_batch appends to results when apply_fix raised
Failure_Dropped(fix_id, exc) == <<>>
Failure(fix_id, exc) ==
    <<[fix_id |-> fix_id, success |-> FALSE, message |-> "raised"]>>

\* the requests a client may send
NoRequest ==
    [endpoint |-> "none", fix_id |-> "", auto_apply |-> FALSE,
     dry_run |-> FALSE, fix_ids |-> <<>>]
FixIdLists == UNION {[1..n -> FixIds] : n \in 0..MaxBatch}
DoctorRequests ==
    {[NoRequest EXCEPT !.endpoint = "diagnose"]}
    \cup {[NoRequest EXCEPT !.endpoint = "fix", !.fix_id = f,
                            !.auto_apply = a, !.dry_run = d] :
              f \in FixIds, a \in BOOLEAN, d \in BOOLEAN}
    \cup {[NoRequest EXCEPT !.endpoint = "batch", !.fix_ids = ids,
                            !.auto_apply = a] :
              ids \in FixIdLists, a \in BOOLEAN}

\* the service between requests
Waiting(store, validation) ==
    [store |-> store, validation |-> validation, phase |-> "idle",
     req |-> NoRequest, results |-> <<>>, ran |-> <<>>, logd |-> <<>>,
     status |-> 0, body |-> NoBody, answer |-> <<>>]

InitDoctor ==
    /\ buffer = <<>>
    /\ lock = Free
    /\ pc = [t \in Threads |-> "idle"]
    /\ via = [t \in Threads |-> "none"]
    /\ logs = [t \in Threads |-> <<>>]
    /\ timersPending = 1
    /\ lifecycle = "Active"
    /\ exited = FALSE
    /\ nlogged = 0
    /\ requests = EmptyBag
    /\ delivered = EmptyBag
    /\ nfail = 0
    /\ closeCalls = 0
    /\ entries = <<>>
    /\ cancels = 0
    /\ ctor = Constructed(ValidArgs)
    /\ call = <<>>
    /\ http = <<>>
    /\ \E store \in SUBSET FixIds, validation \in Validations :
           doctor = Waiting(store, validation)

\* a handler changes the service's record only
Handled(next) ==
    /\ doctor' = next
    /\ UNCHANGED <<buffer, lock, pc, via, logs, timersPending, lifecycle,
                   exited, nlogged, requests, delivered, nfail, closeCalls,
                   entries, cancels, ctor, call, http>>

\* POST /api/diagnose
Diagnose ==
    /\ doctor.phase \in {"idle", "done"}
    /\ \E fault \in BOOLEAN :
         LET r == DiagnoseCall(doctor.validation, fault) IN
         Handled([Waiting(doctor.store, doctor.validation) EXCEPT
                     !.phase = "done",
                     !.req = [NoRequest EXCEPT !.endpoint = "diagnose"],
                     !.status = StatusSent(r.exc),
                     !.body = [success |-> r.exc = NoExc, message |-> r.status]])

\* POST /api/fix
ApplyFix ==
    /\ doctor.phase \in {"idle", "done"}
    /\ \E req \in DoctorRequests, outcome \in ExecOutcomes :
         /\ req.endpoint = "fix"
         /\ LET r == ApplyFixCall(doctor.store,
                         FixRequest(req.fix_id, req.auto_apply, req.dry_run),
                         outcome) IN
            Handled([Waiting(doctor.store, doctor.validation) EXCEPT
                        !.phase = "done", !.req = req,
                        !.status = StatusSent(r.exc), !.body = r.body,
                        !.ran = r.ran, !.logd = r.logd])

\* POST /api/fix/batch arrives: results = []
BatchCalled ==
    /\ doctor.phase \in {"idle", "done"}
    /\ \E req \in DoctorRequests :
         /\ req.endpoint = "batch"
         /\ Handled([Waiting(doctor.store, doctor.validation) EXCEPT
                        !.phase = "batch", !.req = req])

\* one turn of `for fix_id in fix_ids:`: apply_fix with dry_run left at its
\* default, and one result appended, whether it returned or raised
BatchTurn ==
    /\ doctor.phase = "batch"
    /\ Len(doctor.results) < Len(doctor.req.fix_ids)
    /\ \E outcome \in ExecOutcomes :
         LET fix_id == doctor.req.fix_ids[Len(doctor.results) + 1]
             r == ApplyFixCall(doctor.store,
                      FixRequest(fix_id, doctor.req.auto_apply, FALSE), outcome)
         IN Handled([doctor EXCEPT
                !.results = doctor.results \o
                    (IF r.exc = NoExc
                       THEN <<[fix_id |-> fix_id, success |-> r.body.success,
                               message |-> r.body.message]>>
                       ELSE Failure(fix_id, r.exc)),
                !.ran = doctor.ran \o r.ran,
                !.logd = doctor.logd \o r.logd])

\* the number of r in results with r["success"] equal to flag
CountSuccess(results, flag) ==
    Cardinality({i \in 1..Len(results) : results[i].success = flag})

\* the loop is over: the summary is returned
BatchReturns ==
    /\ doctor.phase = "batch"
    /\ Len(doctor.results) = Len(doctor.req.fix_ids)
    /\ Handled([doctor EXCEPT
           !.phase = "done", !.status = 200,
           !.answer = <<[total |-> Len(doctor.req.fix_ids),
                         successful |-> CountSuccess(doctor.results, TRUE),
                         failed |-> CountSuccess(doctor.results, FALSE),
                         results |-> doctor.results]>>])

NextDoctor ==
    \/ Diagnose
    \/ ApplyFix
    \/ BatchCalled
    \/ BatchTurn
    \/ BatchReturns

SpecDoctor == InitDoctor /\ [][NextDoctor]_vars

\* ------------------------------------------------------------------ views
\* a thread is inside `with self.lock:` and calls flush(), whose own
\* `with self.lock:` it then waits on: the lock is never released again
SelfBlocked(t) == pc[t] = "flush_lock" /\ lock = t

Sending == {t \in Threads : pc[t] = "sending"}

\* how often entry e occurs in sequence s
Occurrences(s, e) == Cardinality({i \in 1..Len(s) : s[i] = e})

RECURSIVE SumOver(_, _)
SumOver(S, f) ==
    IF S = {} THEN 0
    ELSE LET x == CHOOSE y \in S : TRUE IN f[x] + SumOver(S \ {x}, f)

\* the number of places entry e is in: the buffer, the batches held by
\* threads whose flush() has not finished, the acknowledged entries
Places(e) ==
    Occurrences(buffer, e)
    + SumOver(Threads, [t \in Threads |-> Occurrences(logs[t], e)])
    + CopiesIn(e, delivered)

\* the entries 1..n in call order
CallOrder(n) == [i \in 1..n |-> i]

OnlyVia(v) == \A r \in BagToSet(requests) : r.via = v
AllIdle == \A t \in Threads : pc[t] = "idle"

\* ------------------------------------------------------------------ claims

\* C1: the log() call that brings the buffer to batch_size goes on to send
\* those entries and returns: it is never left waiting, inside its own
\* `with self.lock:`, for the lock flush() asks for.
C1_ThresholdLogSends ==
    \A t \in AppThreads :
        (via[t] = "log" /\ pc[t] = "flush_lock") => lock # t

\* C2: the entries of a failed batch get back into the buffer: the thread
\* that holds a failed batch is never locked out of the buffer for good.
C2_FailedBatchRequeued ==
    \A t \in Threads :
        pc[t] = "requeue_lock" => (lock = Free \/ ~SelfBlocked(lock))

C4_AllDeliveredOnce ==
    \/ exited
    \/ nfail > 0
    \/ ENABLED Next
    \/ /\ \A e \in 1..MaxLogs : CopiesIn(e, delivered) = 1
       /\ \A r \in BagToSet(requests) : Len(r.batch) <= BatchSize

\* C5: when the periodic timer fires on a non-empty buffer its flush() sends
\* the buffered entries: flush_periodically is never left waiting, inside
\* its own `with self.lock:`, for the lock flush() asks for.
C5_TimerFlushSends == pc[TimerThread] = "flush_lock" => lock # TimerThread

\* C6: after N < batch_size log() calls, with no timer firing, flush() or
\* close() call or exit hook having taken effect, the buffer holds exactly
\* the N entries in call order and no request has been issued.
C6_BelowThresholdBuffered ==
    (AllIdle /\ nlogged < BatchSize /\ OnlyVia("log"))
        => (buffer = CallOrder(nlogged) /\ requests = EmptyBag)

\* C6 witness: N = batch_size - 1 calls made, all of them buffered
C6_Witness ==
    /\ AllIdle
    /\ OnlyVia("log")
    /\ nlogged = BatchSize - 1
    /\ nlogged > 1
    /\ Len(buffer) = nlogged

\* C7: every entry accepted by log() is in exactly one place (the buffer,
\* one batch held by a flush() in progress, or the acknowledged entries),
\* and nothing else is in any of them.
C7_ExactlyOnePlace ==
    /\ \A e \in 1..nlogged : Places(e) = 1
    /\ Range(buffer) \subseteq 1..nlogged
    /\ \A t \in Threads : Range(logs[t]) \subseteq 1..nlogged
    /\ BagToSet(delivered) \subseteq 1..nlogged

\* C7 witness: entries in all three places at once, after a failed send
\* whose batch was requeued
C7_Witness ==
    /\ nfail > 0
    /\ buffer # <<>>
    /\ \E t \in Threads : pc[t] = "sending" /\ logs[t] # <<>>
    /\ delivered # EmptyBag

C9_AtMostOneSend == Cardinality(Sending) <= 1

\* C10: the buffer is always in log()-call order (a failed batch goes back
\* ahead of the entries appended while it was being sent).
C10_BufferFifo ==
    \A i, j \in 1..Len(buffer) : i < j => buffer[i] < buffer[j]

\* C12: every entry of a batch whose POST did not return 200 or 201 is put
\* back into the buffer: while a thread waits to requeue its failed batch,
\* no thread is stuck holding the buffer lock.
C12_OtherStatusRequeues ==
    (\E t \in Threads : pc[t] = "requeue_lock" /\ logs[t] # <<>>)
        => ~(\E u \in Threads : SelfBlocked(u))

\* C14: after every firing of the timer the callback completes and a new
\* timer is armed: while the logger is Active and the process runs, either a
\* timer is pending or flush_periodically is on its way to _start_timer().
C14_TimerRearmed ==
    (lifecycle = "Active" /\ ~exited)
        => \/ timersPending > 0
           \/ pc[TimerThread] # "idle" /\ ~SelfBlocked(TimerThread)

\* C16: a flush() that finds the buffer empty, whoever called it, returns
\* with no request issued and the buffer unchanged.
C16_EmptyFlushSendsNothing ==
    [][\A t \in Threads :
          (pc[t] = "flush_lock" /\ pc'[t] # "flush_lock" /\ buffer = <<>>)
              => /\ requests' = requests
                 /\ buffer' = buffer
                 /\ pc'[t] = "idle"
                 /\ logs'[t] = <<>>]_vars

\* C16 witness: a flush() is about to find the buffer empty while another
\* thread's flush() is sending what it took
C16_Witness ==
    \E t, u \in Threads :
        /\ pc[t] = "flush_lock"
        /\ lock = Free
        /\ buffer = <<>>
        /\ pc[u] = "sending"

C18_ExitHookFlushes ==
    pc[ExitThread] = "flush_lock" => (lock = Free \/ ~SelfBlocked(lock))

\* C19: once close() has returned no flush timer is pending: a callback
\* that was already running when close() cancelled the scheduler arms no
\* new timer.
C19_ClosedStopsTimer == lifecycle = "Closed" => timersPending = 0

\* C20: every entry built so far has the fields it was built with at its
\* log() call, the timestamp being the time of that call, whatever sends,
\* failures and requeues it has gone through since.
C20_EntryUnchanged ==
    /\ Len(entries) = nlogged
    /\ \A e \in 1..nlogged :
           entries[e] = [timestamp |-> e, level |-> "INFO", message |-> "m",
                         service |-> "x", context |-> <<>>]

\* C20 witness: a send failed, its batch was requeued, and every entry has
\* since been delivered
C20_Witness ==
    /\ nfail > 0
    /\ nlogged > 1
    /\ \A e \in 1..nlogged : CopiesIn(e, delivered) = 1

\* C13: a constructor call with api_key, project_slug or service_name
\* absent or empty raises a configuration error and leaves no usable
\* logger: no buffer, no flush timer started, no exit hook registered.
C13_MissingConfigRaises ==
    (/\ ctor.outcome # "pending"
     /\ \E a \in {"api_key", "project_slug", "service_name"} :
            ctor.args[a] \in {NoneValue, ""})
        => /\ ctor.outcome = "raised"
           /\ ctor.error # <<>>
           /\ ctor.error[1] = "ValueError"
           /\ "buffer" \notin ctor.attrs
           /\ ~ctor.timerStarted
           /\ ~ctor.hookRegistered
           /\ timersPending = 0

\* C11: in the sample application's copy the entries of a failed batch are
\* in the buffer again afterwards: every entry accepted by _log() is still
\* in the buffer, in a batch being sent, or acknowledged.
C11_AppFailedBatchRequeued ==
    \A e \in 1..nlogged :
        \/ e \in Range(buffer)
        \/ \E t \in Threads : e \in Range(logs[t])
        \/ e \in BagToSet(delivered)

\* C15: a log() call never cancels or postpones a pending flush timer.
C15_LogNeverCancelsTimer == cancels = 0

\* C21: an entry created by debug/info/warn/error(message, context=C, tags=T)
\* stores context C and tags T, and an empty mapping and an empty sequence
\* for the ones not given.
C21_ContextAndTagsStored ==
    (call.made /\ call.method \in ConvenienceMethods)
        => \A i \in 1..Len(buffer) :
               LET e == entries[buffer[i]] IN
                 /\ e.context = OrEmpty(call.context)
                 /\ "tags" \in DOMAIN e
                 /\ e.tags = OrEmpty(call.tags)

\* C22: every entry in the buffer has one of the levels DEBUG, INFO, WARN,
\* ERROR, whatever string log() was given, and debug/info/warn/error yield
\* DEBUG, INFO, WARN, ERROR.
C22_LevelOneOfFour ==
    \A i \in 1..Len(buffer) :
        LET e == entries[buffer[i]] IN
          /\ e.level \in {"DEBUG", "INFO", "WARN", "ERROR"}
          /\ call.method \in ConvenienceMethods
                 => e.level = MethodLevel(call.method)

\* C23: every request issued by the sample-app copy is, like the SDK
\* module's, a POST to <api_url>/api/logs/batch with Content-Type
\* application/json and Authorization Bearer <api_key>, its body holding
\* project_slug and the batch's entries in buffer order.
C23_PostToBatchEndpoint ==
    \A r \in BagToSet(requests) :
        /\ r.method = "POST"
        /\ r.url \in {ctor.args.api_url \o "/api/logs/batch",
                      Rstrip(ctor.args.api_url) \o "/api/logs/batch"}
        /\ r.headers["Content-Type"] = "application/json"
        /\ r.headers["Authorization"] = "Bearer " \o ctor.args.api_key
        /\ r.body.project_slug = ctor.args.project_slug
        /\ Len(r.body.logs) = Len(r.batch)
        /\ \A i \in 1..Len(r.batch) : r.body.logs[i] = entries[r.batch[i]]

\* C24: in every request log the Authorization and Cookie values are
\* replaced by '[REDACTED]' and User-Agent keeps its value.
C24_SecretsRedacted ==
    \A i \in 1..Len(http.logged) :
        LET hs == HeadersIn(http.logged[i].context) IN
          \A k \in DOMAIN hs :
              /\ k \in {"Authorization", "Cookie"} => hs[k] = Redacted
              /\ k = "User-Agent" => hs[k] = http.headers[k]

\* C25: a request to a path in skip_paths produces no log call whatever its
\* outcome, and a request to another path is logged.
C25_SkippedPathNotLogged ==
    /\ http.path \in SkipPathsOf(http.ext) => http.logged = <<>>
    /\ (http.path \notin SkipPathsOf(http.ext) /\ http.phase = "done")
           => http.logged # <<>>

\* C26: no thread ever requests the buffer lock while it holds it.
C26_NoLockReentry ==
    \A t \in Threads : ~(pc[t] = "flush_lock" /\ lock = t)

\* C27: every log() call eventually returns, every send completing.
C27_LogReturns ==
    \A t \in AppThreads : (via[t] = "log") ~> (via[t] # "log")

\* C28: under an outage (no send accepted so far) the buffer keeps taking
\* log() calls when it has grown to batch_size or past it: no thread sits on
\* the buffer lock for good.
C28_BufferKeepsGrowing ==
    (nfail > 0 /\ delivered = EmptyBag /\ Len(buffer) >= BatchSize)
        => \A t \in Threads : ~SelfBlocked(t)

\* C30: in the sample-app copy a non-empty buffer is eventually taken into
\* a batch (or the process has exited).
C30_BufferedEventuallyTaken ==
    (buffer # <<>>) ~> (buffer = <<>> \/ exited)

\* C29: at every moment at most one flush timer is pending, in the SDK
\* module and in the sample-app copy.
C29_AtMostOneTimer == timersPending <= 1

\* C29 witness: in the copy a timer has fired and its flush() is under way
\* when _log arms the next timer, after an earlier pending timer had been
\* cancelled and replaced
C29_Witness ==
    /\ ctor.cls = "app"
    /\ cancels > 0
    /\ pc[TimerThread] \in {"flush_lock", "sending"}
    /\ timersPending = 1

\* ---- doctor service
\* a request of the endpoint has been answered
Answered(endpoint) == doctor.phase = "done" /\ doctor.req.endpoint = endpoint

\* C31: the doctor service answers 404 when the requested thing is missing:
\* diagnose without a validation status file and apply_fix with an unknown
\* fix id both end with status 404 at the client, not with another status.
C31_MissingGives404 ==
    /\ (Answered("diagnose") /\ doctor.validation = "absent")
           => doctor.status = 404
    /\ (Answered("fix") /\ doctor.req.fix_id \notin doctor.store)
           => doctor.status = 404

\* C32: apply_fix hands a fix to execute_fix only when auto_apply is true
\* and dry_run is false. With dry_run true nothing is executed and no fix
\* application is logged, whatever auto_apply is; with both false (and the
\* fix known) the answer is success=false and nothing is executed.
C32_ExecutesOnlyWhenAsked ==
    Answered("fix") =>
        /\ doctor.ran # <<>> => (doctor.req.auto_apply /\ ~doctor.req.dry_run)
        /\ doctor.req.dry_run => (doctor.ran = <<>> /\ doctor.logd = <<>>)
        /\ (~doctor.req.dry_run /\ ~doctor.req.auto_apply)
               => /\ doctor.ran = <<>>
                  /\ doctor.logd = <<>>
                  /\ doctor.req.fix_id \in doctor.store
                         => (doctor.status = 200 /\ ~doctor.body.success)

\* a known fix was asked for with dry_run and auto_apply both true, and
\* the dry-run answer came back with nothing executed
C32_Witness ==
    /\ Answered("fix")
    /\ doctor.req.fix_id \in doctor.store
    /\ doctor.req.dry_run /\ doctor.req.auto_apply
    /\ doctor.status = 200 /\ doctor.body.success
    /\ doctor.ran = <<>>

\* the fix ids of a list that the executor knows, in the list's order
Known(ids) == SelectSeq(ids, LAMBDA f : f \in doctor.store)

\* C33: apply_fixes_batch returns exactly one result per requested fix id,
\* in request order, with total = len(fix_ids) and successful + failed =
\* total; a fix that fails or raises is recorded with success=false and the
\* fixes after it are still applied.
C33_OneResultPerFix ==
    /\ doctor.phase = "batch" =>
           /\ Len(doctor.results) <= Len(doctor.req.fix_ids)
           /\ doctor.ran = IF doctor.req.auto_apply
                             THEN Known(SubSeq(doctor.req.fix_ids, 1,
                                               Len(doctor.results)))
                             ELSE <<>>
    /\ Answered("batch") =>
           LET ids == doctor.req.fix_ids
               ans == doctor.answer[1]
           IN /\ doctor.status = 200
              /\ Len(ans.results) = Len(ids)
              /\ \A i \in 1..Len(ids) : ans.results[i].fix_id = ids[i]
              /\ ans.total = Len(ids)
              /\ ans.successful + ans.failed = ans.total
              /\ ans.successful = CountSuccess(doctor.logd, TRUE)
              /\ doctor.ran = IF doctor.req.auto_apply THEN Known(ids) ELSE <<>>

\* a batch of two known fixes: execute_fix raised on the first, which is
\* recorded as failed, and the second was applied successfully
C33_Witness ==
    /\ Answered("batch")
    /\ Len(doctor.req.fix_ids) = 2
    /\ Len(doctor.ran) = 2
    /\ doctor.logd = <<[fix_id |-> doctor.req.fix_ids[2], success |-> TRUE]>>
    /\ doctor.answer[1].successful = 1
    /\ doctor.answer[1].failed = 1
    /\ ~doctor.answer[1].results[1].success
    /\ doctor.answer[1].results[2].success
====
